---- MODULE Spec2Model ----
(***************************************************************************)
(* Model of ExecutionContext                                               *)
(* (packages/core/src/node-execution-context/execute-context.ts): the      *)
(* per-node execution context of the workflow engine.                      *)
(*                                                                         *)
(* Part 1: input addressing (getInputData, getInputSourceData).            *)
(* Part 2: recording of input/output data in the shared run record         *)
(*         (addInputData, addOutputData).                                  *)
(* Part 3: wait state and cancellation (putExecutionToWait,                *)
(*         getExecutionCancelSignal, onExecutionCancellation).             *)
(* Part 4: sub-workflow invocation (executeWorkflow).                      *)
(* Part 5: UI and telemetry sinks (logNodeOutput, sendMessageToUI,         *)
(*         logAiEvent).                                                    *)
(***************************************************************************)
EXTENDS Integers, Sequences, FiniteSets, TLC

VARIABLES
    inputData,      \* ITaskDataConnections given at construction
    executeData,    \* IExecuteData given at construction (its source field)
    lastCall,       \* the last addressing call made by node logic and its outcome
    ctx,            \* the contexts the scheduler has constructed, by id
    runData,        \* runExecutionData.resultData.runData: node name -> attempts
    tasks,          \* the recordings started by add calls, in call order
    warnings,       \* ids of the recordings whose failure logger.warn reported
    raised,         \* ids of the recordings whose failure reached node logic
    waitTill,       \* runExecutionData.waitTill
    hasStatusSetter,\* additionalData.setExecutionStatus was supplied
    statusLog,      \* the statuses additionalData.setExecutionStatus was called with
    waitReturns,    \* the putExecutionToWait calls made, with their outcome
    abortSignal,    \* the AbortSignal given at construction (0: none)
    signals,        \* the AbortSignals of the engine: aborted flag, 'abort' listeners
    events,         \* the 'abort' events dispatched on each signal
    regs,           \* the onExecutionCancellation registrations and their handler runs
    lastGot,        \* what getExecutionCancelSignal returned last (-1: not called)
    subCalls,       \* the executeWorkflow calls made and how far each has got
    store,          \* the binary references held by the parent execution's store
    mode,           \* WorkflowExecuteMode given at construction
    hasUiSender,    \* additionalData.sendDataToUI was supplied
    stdoutEnabled,  \* process.env.CODE_ENABLE_STDOUT === 'true'
    sinkCalls       \* the logNodeOutput / sendMessageToUI / logAiEvent calls made

addrVars == <<inputData, executeData, lastCall>>

recVars == <<ctx, runData, tasks, warnings, raised>>

waitVars == <<waitTill, hasStatusSetter, statusLog, waitReturns>>

cancelVars == <<abortSignal, signals, events, regs, lastGot>>

subVars == <<subCalls, store>>

uiVars == <<mode, hasUiSender, stdoutEnabled, sinkCalls>>

extVars == <<subCalls, store, mode, hasUiSender, stdoutEnabled, sinkCalls>>

vars == <<inputData, executeData, lastCall, ctx, runData, tasks, warnings, raised,
          waitTill, hasStatusSetter, statusLog, waitReturns,
          abortSignal, signals, events, regs, lastGot,
          subCalls, store, mode, hasUiSender, stdoutEnabled, sinkCalls>>

----------------------------------------------------------------------------
(* Bounds *)

\* longest list of batches recorded for one channel
MaxBatches == 2

\* largest inputIndex a node asks for
MaxIndex == 3

----------------------------------------------------------------------------
(* Values *)

Channels == {"main", "extra"}

Batches == {<<>>, <<"item">>}

\* one entry of ITaskDataConnections[channel]: INodeExecutionData[] | null
NullSlot == [isNull |-> TRUE, items |-> <<>>]

BatchSlot(b) == [isNull |-> FALSE, items |-> b]

Slots == {NullSlot} \cup {BatchSlot(b) : b \in Batches}

SeqsUpTo(S, n) == UNION {[1..k -> S] : k \in 0..n}

\* every ITaskDataConnections: a channel is a key or it is not
TaskDataConnections ==
    UNION {[D -> SeqsUpTo(Slots, MaxBatches)] : D \in SUBSET Channels}

\* one entry of ITaskDataConnectionsSource[channel]: ISourceData | null
Sources == {"null", "upstream"}

TaskDataConnectionsSource ==
    UNION {[D -> SeqsUpTo(Sources, MaxBatches)] : D \in SUBSET Channels}

\* IExecuteData.source : ITaskDataConnectionsSource | null
NoSource == [isNull |-> TRUE, map |-> <<>>]

SomeSource(m) == [isNull |-> FALSE, map |-> m]

ExecuteDatas == {NoSource} \cup {SomeSource(m) : m \in TaskDataConnectionsSource}

\* outcomes of a call
Returned(tag, v) ==
    [kind |-> "return", tag |-> tag, value |-> v, message |-> "",
     inputIndex |-> -1, inputName |-> ""]

Thrown(msg, i, n) ==
    [kind |-> "throw", tag |-> "error", value |-> <<>>, message |-> msg,
     inputIndex |-> i, inputName |-> n]

NoCall == [op |-> "none", inputIndex |-> 0, inputName |-> "", outcome |-> Returned("none", <<>>)]

MsgIndexOutOfRange == "Could not get input with given index"

MsgUnsetInputValue == "Value of input was not set"

MsgSourceDataMissing == "Source data is missing"

MsgTypeError == "TypeError: Cannot read properties of undefined"

----------------------------------------------------------------------------
(* Contexts and the shared run record *)

\* number of contexts the scheduler constructs in one execution
NCtx == 2

\* number of addInputData / addOutputData calls in one execution
MaxCalls == 3

Nodes == {"A", "B"}

\* the node the execution starts at: the first context is constructed for it
StartNode == "A"

CtxIds == 1..NCtx

\* the item batches an add call is given
Data == {"items"}

NoCtx == [state |-> "none", node |-> "A", runIndex |-> 0, after |-> {}]

SigIds == {1, 2}

\* runExecutionData.waitTill: undefined or a Date
NoWait == [set |-> FALSE, time |-> 0]

WaitUntil(t) == [set |-> TRUE, time |-> t]

WaitIdle ==
    /\ waitTill = NoWait
    /\ hasStatusSetter = TRUE
    /\ statusLog = <<>>
    /\ waitReturns = <<>>

FreshSignal == [aborted |-> FALSE, listeners |-> <<>>]

CancelIdle ==
    /\ abortSignal = 0
    /\ signals = [g \in SigIds |-> FreshSignal]
    /\ events = [g \in SigIds |-> 0]
    /\ regs = <<>>
    /\ lastGot = -1

SubIdle ==
    /\ subCalls = <<>>
    /\ store = {}

UiIdle ==
    /\ mode = "manual"
    /\ hasUiSender = TRUE
    /\ stdoutEnabled = FALSE
    /\ sinkCalls = <<>>

\* no context constructed, an empty run record, nothing being recorded
RecIdle ==
    /\ ctx = [c \in CtxIds |-> NoCtx]
    /\ runData = <<>>
    /\ tasks = [n \in Nodes |-> <<>>]
    /\ warnings = {}
    /\ raised = {}

TaskIds == {id \in Nodes \X (1..MaxCalls) : id[2] <= Len(tasks[id[1]])}

Task(id) == tasks[id[1]][id[2]]

\* the add calls made so far
Calls == Len(tasks["A"]) + Len(tasks["B"])

Settled(id) == Task(id).state # "pending"

\* the contexts of node n that are discarded and have no recording in flight
Finished(n) ==
    {c \in CtxIds :
        /\ ctx[c].state = "done"
        /\ ctx[c].node = n
        /\ \A id \in TaskIds : Task(id).ctx = c => Settled(id)}

\* the run index of the next run of node n: the runs of n constructed so far
NextRunIndex(n) ==
    Cardinality({c \in CtxIds : ctx[c].state # "none" /\ ctx[c].node = n})

\* the scheduler constructs a context for one run of node n
Construct(c, n) ==
    /\ ctx[c].state = "none"
    /\ \A d \in CtxIds : d < c => ctx[d].state # "none"
    /\ c = 1 => n = StartNode
    /\ Calls < MaxCalls
    /\ ctx' = [ctx EXCEPT ![c] =
                  [state |-> "live", node |-> n, runIndex |-> NextRunIndex(n),
                   after |-> Finished(n)]]
    /\ UNCHANGED <<runData, tasks, warnings, raised>>
    /\ UNCHANGED <<addrVars, waitVars, cancelVars, extVars>>

\* the scheduler discards the context after the run
Discard(c) ==
    /\ ctx[c].state = "live"
    /\ Calls < MaxCalls
    /\ ctx' = [ctx EXCEPT ![c].state = "done"]
    /\ UNCHANGED <<runData, tasks, warnings, raised>>
    /\ UNCHANGED <<addrVars, waitVars, cancelVars, extVars>>

\* runData.hasOwnProperty(nodeName) ? runData[nodeName].length : 0
AttemptCount(rd, n) == IF n \in DOMAIN rd THEN Len(rd[n]) ELSE 0

\* the call addExecutionDataFunctions(type, nodeName, data, runExecutionData, ...,
\* sourceNodeName, sourceNodeRunIndex, currentNodeRunIndex): a recording under
\* nodeName is started and not awaited; the call returns at once
StartRecording(type, c, nodeName, data, idx) ==
    tasks' = [tasks EXCEPT ![nodeName] = Append(@,
        [type |-> type, idx |-> idx, data |-> data, ctx |-> c,
         sourceRunIndex |-> ctx[c].runIndex, state |-> "pending",
         ret |-> IF type = "input" THEN idx ELSE -1])]

AddInputDataAt(c, nodeName, data, idx) ==
    /\ ctx[c].state = "live"
    /\ Calls < MaxCalls
    /\ StartRecording("input", c, nodeName, data, idx)
    /\ UNCHANGED <<ctx, runData, warnings, raised>>
    /\ UNCHANGED <<addrVars, waitVars, cancelVars, extVars>>

\* the input calls context c has made
InputCalls(c) == {id \in TaskIds : Task(id).ctx = c /\ Task(id).type = "input"}

\* addInputData with a counter of the context's own calls for the attempt index
AddInputData_LocalCounter(c, data) ==
    AddInputDataAt(c, ctx[c].node, data, Cardinality(InputCalls(c)))

\* addInputData with the attempt count taken over every node of the record
AddInputData_AllNodes(c, data) ==
    AddInputDataAt(c, ctx[c].node, data,
        AttemptCount(runData, "A") + AttemptCount(runData, "B"))

\* addInputData with the index of the last attempt instead of the count
AddInputData_LastAttempt(c, data) ==
    AddInputDataAt(c, ctx[c].node, data,
        IF AttemptCount(runData, ctx[c].node) = 0 THEN 0
        ELSE AttemptCount(runData, ctx[c].node) - 1)

AddInputData(c, data) ==
    AddInputDataAt(c, ctx[c].node, data, AttemptCount(runData, ctx[c].node))

\* the attempt indices addInputData has returned to context c
Held(c) == {Task(id).ret : id \in InputCalls(c)}

\* addOutputData: the caller passes an attempt index addInputData gave it
AddOutputData(c, idx, data) ==
    /\ ctx[c].state = "live"
    /\ Calls < MaxCalls
    /\ idx \in Held(c)
    /\ StartRecording("output", c, ctx[c].node, data, idx)
    /\ UNCHANGED <<ctx, runData, warnings, raised>>
    /\ UNCHANGED <<addrVars, waitVars, cancelVars, extVars>>

\* one attempt of a node in the run record (ITaskData); by and outBy name the
\* calls of that node that wrote its input and its output
Hole == [by |-> 0, input |-> "none", output |-> "none", outBy |-> 0, status |-> "hole"]

InputEntry(id) ==
    [by |-> id[2], input |-> Task(id).data, output |-> "none", outBy |-> 0,
     status |-> "running"]

OutputEntry(e, id) ==
    [e EXCEPT !.output = Task(id).data, !.outBy = id[2], !.status = "success"]

\* the JavaScript write arr[i] = e, which lengthens the array when i >= length
WriteAt(arr, i, e) ==
    [k \in 1..(IF i + 1 > Len(arr) THEN i + 1 ELSE Len(arr)) |->
        IF k = i + 1 THEN e ELSE IF k <= Len(arr) THEN arr[k] ELSE Hole]

AttemptsOf(rd, n) == IF n \in DOMAIN rd THEN rd[n] ELSE <<>>

SetAttempts(rd, n, arr) == [m \in DOMAIN rd \cup {n} |-> IF m = n THEN arr ELSE rd[m]]

HasAttempt(rd, n, i) ==
    /\ i >= 0
    /\ i < AttemptCount(rd, n)
    /\ rd[n][i + 1] # Hole

SetTaskState(id, st) == tasks' = [tasks EXCEPT ![id[1]][id[2]].state = st]

\* addExecutionDataFunctions runs to its end: the entry is put under
\* (node name, attempt index); an output with no input entry is dropped
RecordTask(id) ==
    /\ id \in TaskIds
    /\ Task(id).state = "pending"
    /\ IF Task(id).type = "input"
       THEN /\ runData' = SetAttempts(runData, id[1],
                    WriteAt(AttemptsOf(runData, id[1]), Task(id).idx, InputEntry(id)))
            /\ SetTaskState(id, "recorded")
       ELSE IF HasAttempt(runData, id[1], Task(id).idx)
       THEN /\ runData' = SetAttempts(runData, id[1],
                    WriteAt(runData[id[1]], Task(id).idx,
                            OutputEntry(runData[id[1]][Task(id).idx + 1], id)))
            /\ SetTaskState(id, "recorded")
       ELSE /\ runData' = runData
            /\ SetTaskState(id, "dropped")
    /\ UNCHANGED <<ctx, warnings, raised>>
    /\ UNCHANGED <<addrVars, waitVars, cancelVars, extVars>>

\* the .catch handler of the add calls with the error thrown on to node logic
CatchHandler_Rethrow(id) ==
    /\ warnings' = warnings
    /\ raised' = raised \cup {id}

\* the .catch handler of the add calls: logger.warn, nothing else
CatchHandler(id) ==
    /\ warnings' = warnings \cup {id}
    /\ raised' = raised

\* addExecutionDataFunctions rejects: nothing is recorded, the handler runs
FailTask(id) ==
    /\ id \in TaskIds
    /\ Task(id).state = "pending"
    /\ SetTaskState(id, "failed")
    /\ CatchHandler(id)
    /\ UNCHANGED <<ctx, runData>>
    /\ UNCHANGED <<addrVars, waitVars, cancelVars, extVars>>

InitRecord ==
    /\ inputData = <<>>
    /\ executeData = NoSource
    /\ lastCall = NoCall
    /\ RecIdle
    /\ WaitIdle
    /\ CancelIdle
    /\ SubIdle
    /\ UiIdle

NextRecord ==
    \/ \E c \in CtxIds, n \in Nodes : Construct(c, n)
    \/ \E c \in CtxIds : Discard(c)
    \/ \E c \in CtxIds, d \in Data : AddInputData(c, d)
    \/ \E c \in CtxIds, i \in 0..MaxCalls, d \in Data : AddOutputData(c, i, d)
    \/ \E id \in Nodes \X (1..MaxCalls) : RecordTask(id)
    \/ \E id \in Nodes \X (1..MaxCalls) : FailTask(id)

SpecRecord == InitRecord /\ [][NextRecord]_vars

----------------------------------------------------------------------------
(* getInputData *)

\* the JavaScript read arr[i]: undefined past the end of the array
ReadSlot(arr, i) ==
    IF i >= 0 /\ i < Len(arr)
    THEN IF arr[i + 1].isNull THEN Returned("null", <<>>)
         ELSE Returned("items", arr[i + 1].items)
    ELSE Returned("undefined", <<>>)

\* getInputData without the hasOwnProperty guard of an unconnected channel
getInputData_NoChannelGuard(data, inputIndex, inputName) ==
    IF inputName \notin DOMAIN data
    THEN Thrown(MsgTypeError, -1, "")
    ELSE IF Len(data[inputName]) < inputIndex
    THEN Thrown(MsgIndexOutOfRange, inputIndex, inputName)
    ELSE IF ReadSlot(data[inputName], inputIndex).tag = "null"
    THEN Thrown(MsgUnsetInputValue, inputIndex, inputName)
    ELSE ReadSlot(data[inputName], inputIndex)

\* getInputData without the null check of the slot
getInputData_NoNullCheck(data, inputIndex, inputName) ==
    IF inputName \notin DOMAIN data
    THEN Returned("items", <<>>)
    ELSE IF Len(data[inputName]) < inputIndex
    THEN Thrown(MsgIndexOutOfRange, inputIndex, inputName)
    ELSE ReadSlot(data[inputName], inputIndex)

getInputData(data, inputIndex, inputName) ==
    IF inputName \notin DOMAIN data
    THEN Returned("items", <<>>)
    ELSE IF Len(data[inputName]) < inputIndex
    THEN Thrown(MsgIndexOutOfRange, inputIndex, inputName)
    ELSE IF ReadSlot(data[inputName], inputIndex).tag = "null"
    THEN Thrown(MsgUnsetInputValue, inputIndex, inputName)
    ELSE ReadSlot(data[inputName], inputIndex)

\* the JavaScript read source[inputName][inputIndex]
ReadSource(map, inputIndex, inputName) ==
    IF inputName \notin DOMAIN map
    THEN Thrown(MsgTypeError, -1, "")
    ELSE IF inputIndex >= 0 /\ inputIndex < Len(map[inputName])
    THEN Returned(IF map[inputName][inputIndex + 1] = "null" THEN "null" ELSE "source",
                  <<map[inputName][inputIndex + 1]>>)
    ELSE Returned("undefined", <<>>)

getInputSourceData(ed, inputIndex, inputName) ==
    IF ed.isNull
    THEN Thrown(MsgSourceDataMissing, -1, "")
    ELSE ReadSource(ed.map, inputIndex, inputName)

GetInputData(i, n) ==
    /\ lastCall' = [op |-> "getInputData", inputIndex |-> i, inputName |-> n,
                    outcome |-> getInputData(inputData, i, n)]
    /\ UNCHANGED <<inputData, executeData>>
    /\ UNCHANGED recVars
    /\ UNCHANGED <<waitVars, cancelVars, extVars>>

GetInputSourceData(i, n) ==
    /\ lastCall' = [op |-> "getInputSourceData", inputIndex |-> i, inputName |-> n,
                    outcome |-> getInputSourceData(executeData, i, n)]
    /\ UNCHANGED <<inputData, executeData>>
    /\ UNCHANGED recVars
    /\ UNCHANGED <<waitVars, cancelVars, extVars>>

InitInput ==
    /\ inputData \in TaskDataConnections
    /\ executeData = NoSource
    /\ lastCall = NoCall
    /\ RecIdle
    /\ WaitIdle
    /\ CancelIdle
    /\ SubIdle
    /\ UiIdle

NextInput == \E i \in 0..MaxIndex, n \in Channels : GetInputData(i, n)

SpecInput == InitInput /\ [][NextInput]_vars

InitSource ==
    /\ inputData = <<>>
    /\ executeData \in ExecuteDatas
    /\ lastCall = NoCall
    /\ RecIdle
    /\ WaitIdle
    /\ CancelIdle
    /\ SubIdle
    /\ UiIdle

NextSource == \E i \in 0..MaxIndex, n \in Channels : GetInputSourceData(i, n)

SpecSource == InitSource /\ [][NextSource]_vars

----------------------------------------------------------------------------
(* putExecutionToWait *)

\* putExecutionToWait calls in one execution
MaxWaits == 2

Times == {1, 2}

\* putExecutionToWait that starts the wait record anew
PutExecutionToWait_ResetsRecord(c, t) ==
    /\ ctx[c].state = "live"
    /\ Len(waitReturns) < MaxWaits
    /\ waitTill' = WaitUntil(t)
    /\ statusLog' = IF hasStatusSetter THEN Append(statusLog, "waiting") ELSE statusLog
    /\ waitReturns' = Append(waitReturns, [time |-> t, ok |-> TRUE])
    /\ runData' = <<>>
    /\ UNCHANGED <<hasStatusSetter, ctx, tasks, warnings, raised, addrVars, cancelVars, extVars>>

PutExecutionToWait(c, t) ==
    /\ ctx[c].state = "live"
    /\ Len(waitReturns) < MaxWaits
    /\ waitTill' = WaitUntil(t)
    /\ statusLog' = IF hasStatusSetter THEN Append(statusLog, "waiting") ELSE statusLog
    /\ waitReturns' = Append(waitReturns, [time |-> t, ok |-> TRUE])
    /\ UNCHANGED <<hasStatusSetter, recVars, addrVars, cancelVars, extVars>>

InitWait ==
    /\ inputData = <<>>
    /\ executeData = NoSource
    /\ lastCall = NoCall
    /\ RecIdle
    /\ waitTill = NoWait
    /\ hasStatusSetter \in BOOLEAN
    /\ statusLog = <<>>
    /\ waitReturns = <<>>
    /\ CancelIdle
    /\ SubIdle
    /\ UiIdle

\* one context of the start node records data and puts the execution to wait
NextWait ==
    \/ Construct(1, StartNode)
    \/ \E d \in Data : AddInputData(1, d)
    \/ \E i \in 0..MaxCalls, d \in Data : AddOutputData(1, i, d)
    \/ \E id \in Nodes \X (1..MaxCalls) : RecordTask(id)
    \/ \E id \in Nodes \X (1..MaxCalls) : FailTask(id)
    \/ \E t \in Times : PutExecutionToWait(1, t)

SpecWait == InitWait /\ [][NextWait]_vars

----------------------------------------------------------------------------
(* Cancellation *)

\* onExecutionCancellation calls made through the context
MaxRegs == 2

\* 'abort' events dispatched on one signal
MaxEvents == 2

Range(f) == {f[i] : i \in DOMAIN f}

Remove(q, r) == SelectSeq(q, LAMBDA x : x # r)

\* the call handler(), seen from the registration: was its listener still on
\* the signal, was the signal aborted
HandlerRun(st, r) ==
    [st EXCEPT !.regs[r] =
        [runs |-> @.runs + 1, attachedAtRun |-> r \in Range(st.listeners),
         abortedAtRun |-> st.aborted, ok |-> @.ok]]

\* the listener without the removeEventListener call
fn_NoRemove(st, r) == HandlerRun(st, r)

\* the listener fn of registration r:
\* removeEventListener('abort', fn), then handler()
fn(st, r) == HandlerRun([st EXCEPT !.listeners = Remove(@, r)], r)

\* EventTarget dispatch: the listeners on the signal when the event is
\* dispatched run in the order they were added
RECURSIVE RunListeners(_, _)
RunListeners(st, q) ==
    IF q = <<>> THEN st
    ELSE RunListeners(
             IF Head(q) \in Range(st.listeners) THEN fn(st, Head(q)) ELSE st,
             Tail(q))

Dispatch(g) ==
    LET st == RunListeners([listeners |-> signals[g].listeners, regs |-> regs,
                            aborted |-> TRUE],
                           signals[g].listeners)
    IN  /\ signals' = [signals EXCEPT ![g] = [aborted |-> TRUE, listeners |-> st.listeners]]
        /\ regs' = st.regs
        /\ events' = [events EXCEPT ![g] = @ + 1]

\* AbortController.abort(): the signal becomes aborted and dispatches 'abort'
Abort(g) ==
    /\ ~signals[g].aborted
    /\ Dispatch(g)
    /\ UNCHANGED <<abortSignal, lastGot, recVars, addrVars, waitVars, extVars>>

\* a later 'abort' event dispatched on a signal that is aborted already
Redispatch(g) ==
    /\ signals[g].aborted
    /\ events[g] < MaxEvents
    /\ Dispatch(g)
    /\ UNCHANGED <<abortSignal, lastGot, recVars, addrVars, waitVars, extVars>>

NewReg == [runs |-> 0, attachedAtRun |-> FALSE, abortedAtRun |-> FALSE, ok |-> TRUE]

\* this.abortSignal?.addEventListener('abort', fn)
OnExecutionCancellation ==
    /\ Len(regs) < MaxRegs
    /\ regs' = Append(regs, NewReg)
    /\ signals' = IF abortSignal = 0 THEN signals
                  ELSE [signals EXCEPT ![abortSignal].listeners = Append(@, Len(regs) + 1)]
    /\ UNCHANGED <<abortSignal, events, lastGot, recVars, addrVars, waitVars, extVars>>

GetExecutionCancelSignal ==
    /\ lastGot' = abortSignal
    /\ UNCHANGED <<abortSignal, signals, events, regs, recVars, addrVars, waitVars, extVars>>

InitCancel ==
    /\ inputData = <<>>
    /\ executeData = NoSource
    /\ lastCall = NoCall
    /\ RecIdle
    /\ WaitIdle
    /\ SubIdle
    /\ UiIdle
    /\ abortSignal \in {0} \cup SigIds
    /\ signals = [g \in SigIds |-> FreshSignal]
    /\ events = [g \in SigIds |-> 0]
    /\ regs = <<>>
    /\ lastGot = -1

NextCancel ==
    \/ OnExecutionCancellation
    \/ GetExecutionCancelSignal
    \/ \E g \in SigIds : Abort(g)
    \/ \E g \in SigIds : Redispatch(g)

SpecCancel == InitCancel /\ [][NextCancel]_vars

----------------------------------------------------------------------------
(* executeWorkflow *)

\* executeWorkflow calls in one execution
MaxSubCalls == 2

\* this.workflow.id and additionalData.executionId of the calling node
ParentWorkflowId == "parent-workflow"

ParentExecutionId == "parent-execution"

\* a binary-data reference: the workflow and execution whose store holds it,
\* and the bytes it resolves to
BinaryRef(w, e, b) == [workflowId |-> w, executionId |-> e, content |-> b]

Contents == {1, 2}

\* what a nested execution can hand back: references into its own store
SubOutputs ==
    {{BinaryRef("sub-workflow", "sub-execution", b) : b \in B} : B \in SUBSET Contents}

NestedErrors == {"NestedFailure"}

NoError == [type |-> "", cause |-> ""]

\* BinaryDataService.duplicateBinaryData: every reference copied into the store
\* of (workflowId, executionId), same bytes under a new reference
duplicateBinaryData(workflowId, executionId, result) ==
    {BinaryRef(workflowId, executionId, r.content) : r \in result}

\* the call additionalData.executeWorkflow(workflowInfo, additionalData, {...})
Invoked ==
    [pc |-> "invoked", invocations |-> 1, nested |-> {}, nestedError |-> "",
     dups |-> 0, value |-> {}, error |-> NoError]

ExecuteWorkflow ==
    /\ Len(subCalls) < MaxSubCalls
    /\ subCalls' = Append(subCalls, Invoked)
    /\ UNCHANGED <<store, uiVars, recVars, addrVars, waitVars, cancelVars>>

\* the .then handler: duplicateBinaryData(workflow.id, executionId, result) is
\* called and awaited
ThenHandler(call, result) ==
    [call EXCEPT !.pc = "duplicating", !.nested = result, !.dups = @ + 1]

\* .then is given no rejection handler: the rejection is the call's outcome
Rejection(call, e) ==
    [call EXCEPT !.pc = "failed", !.nestedError = e, !.error = [type |-> e, cause |-> ""]]

\* the Sub-Workflow Invoker finishes the nested execution
NestedResolves(k, result) ==
    /\ k \in DOMAIN subCalls
    /\ subCalls[k].pc = "invoked"
    /\ subCalls' = [subCalls EXCEPT ![k] = ThenHandler(@, result)]
    /\ UNCHANGED <<store, uiVars, recVars, addrVars, waitVars, cancelVars>>

\* the nested execution fails
NestedRejects(k, e) ==
    /\ k \in DOMAIN subCalls
    /\ subCalls[k].pc = "invoked"
    /\ subCalls' = [subCalls EXCEPT ![k] = Rejection(@, e)]
    /\ UNCHANGED <<store, uiVars, recVars, addrVars, waitVars, cancelVars>>

\* the duplication finishes: the copies are in the parent's store and are the
\* value of the call
DuplicateResolves(k) ==
    /\ k \in DOMAIN subCalls
    /\ subCalls[k].pc = "duplicating"
    /\ subCalls' = [subCalls EXCEPT ![k] =
           [@ EXCEPT !.pc = "returned",
                     !.value = duplicateBinaryData(ParentWorkflowId, ParentExecutionId,
                                                   subCalls[k].nested)]]
    /\ store' = store \cup duplicateBinaryData(ParentWorkflowId, ParentExecutionId,
                                               subCalls[k].nested)
    /\ UNCHANGED <<uiVars, recVars, addrVars, waitVars, cancelVars>>

\* the binary store fails while duplicating
DuplicateRejects(k) ==
    /\ k \in DOMAIN subCalls
    /\ subCalls[k].pc = "duplicating"
    /\ subCalls' = [subCalls EXCEPT ![k] =
           [@ EXCEPT !.pc = "failed", !.error = [type |-> "BinaryStoreFailure", cause |-> ""]]]
    /\ UNCHANGED <<store, uiVars, recVars, addrVars, waitVars, cancelVars>>

InitSub ==
    /\ inputData = <<>>
    /\ executeData = NoSource
    /\ lastCall = NoCall
    /\ RecIdle
    /\ WaitIdle
    /\ CancelIdle
    /\ SubIdle
    /\ UiIdle

NextSub ==
    \/ ExecuteWorkflow
    \/ \E k \in 1..MaxSubCalls, r \in SubOutputs : NestedResolves(k, r)
    \/ \E k \in 1..MaxSubCalls, e \in NestedErrors : NestedRejects(k, e)
    \/ \E k \in 1..MaxSubCalls : DuplicateResolves(k)
    \/ \E k \in 1..MaxSubCalls : DuplicateRejects(k)

SpecSub == InitSub /\ [][NextSub]_vars

----------------------------------------------------------------------------
(* logNodeOutput, sendMessageToUI, logAiEvent *)

\* sink calls in one execution
MaxSinkCalls == 2

Modes == {"manual", "trigger", "webhook"}

\* what one call did: the sink it reached ("none", "ui", "stdout", "ai"),
\* whether that sink failed, whether logger.warn was called, and how the call
\* ended for the node logic ("returned" or "thrown")
SinkCall(op, sink, failed, warned, outcome) ==
    [op |-> op, sink |-> sink, failed |-> failed, warned |-> warned, outcome |-> outcome]

\* the body of sendMessageToUI: outside manual mode nothing; otherwise the
\* sender, if supplied, is called inside try, and catch calls logger.warn
sendMessageToUI(op, senderThrows) ==
    IF mode # "manual"
    THEN SinkCall(op, "none", FALSE, FALSE, "returned")
    ELSE IF hasUiSender
         THEN SinkCall(op, "ui", senderThrows, senderThrows, "returned")
         ELSE SinkCall(op, "none", FALSE, FALSE, "returned")

\* the body of logNodeOutput: manual mode goes to sendMessageToUI, any other
\* mode to console.log when CODE_ENABLE_STDOUT is 'true'
logNodeOutput(senderThrows) ==
    IF mode = "manual"
    THEN sendMessageToUI("logNodeOutput", senderThrows)
    ELSE IF stdoutEnabled
         THEN SinkCall("logNodeOutput", "stdout", FALSE, FALSE, "returned")
         ELSE SinkCall("logNodeOutput", "none", FALSE, FALSE, "returned")

\* the body of logAiEvent: return additionalData.logAiEvent(...), with no try
logAiEvent(loggerFails) ==
    SinkCall("logAiEvent", "ai", loggerFails, FALSE,
             IF loggerFails THEN "thrown" ELSE "returned")

SinkStep(call) ==
    /\ Len(sinkCalls) < MaxSinkCalls
    /\ sinkCalls' = Append(sinkCalls, call)
    /\ UNCHANGED <<mode, hasUiSender, stdoutEnabled, subVars, recVars, addrVars,
                   waitVars, cancelVars>>

SendMessageToUI(senderThrows) == SinkStep(sendMessageToUI("sendMessageToUI", senderThrows))

LogNodeOutput(senderThrows) == SinkStep(logNodeOutput(senderThrows))

LogAiEvent(loggerFails) == SinkStep(logAiEvent(loggerFails))

InitUI ==
    /\ inputData = <<>>
    /\ executeData = NoSource
    /\ lastCall = NoCall
    /\ RecIdle
    /\ WaitIdle
    /\ CancelIdle
    /\ SubIdle
    /\ mode \in Modes
    /\ hasUiSender \in BOOLEAN
    /\ stdoutEnabled \in BOOLEAN
    /\ sinkCalls = <<>>

NextUI ==
    \/ \E f \in BOOLEAN : SendMessageToUI(f)
    \/ \E f \in BOOLEAN : LogNodeOutput(f)
    \/ \E f \in BOOLEAN : LogAiEvent(f)

SpecUI == InitUI /\ [][NextUI]_vars

----------------------------------------------------------------------------
(* Properties of the run record *)

Constructed == {c \in CtxIds : ctx[c].state # "none"}

RecordedBy(c) == {id \in TaskIds : Task(id).ctx = c /\ Task(id).state = "recorded"}

\* the recordings this step starts and the recordings this step settles
Started(n) == IF Len(tasks'[n]) > Len(tasks[n]) THEN {tasks'[n][Len(tasks'[n])]} ELSE {}

SettledNow == {id \in TaskIds : Task(id).state = "pending" /\ tasks'[id[1]][id[2]].state # "pending"}

\* the contexts whose calls wrote attempt k of node n
Writers(n, k) ==
    {tasks[n][j].ctx : j \in {runData[n][k].by, runData[n][k].outBy} \ {0}}

Kept(n, k) == k <= AttemptCount(runData', n) /\ runData'[n][k] = runData[n][k]

C5_Indices ==
    \A c2 \in Constructed : \A c1 \in ctx[c2].after :
        \A id2 \in InputCalls(c2) : \A id1 \in RecordedBy(c1) :
            Task(id2).ret > Task(id1).idx

C5_Step ==
    /\ \A n \in Nodes : \A t \in Started(n) :
           (t.type = "input" /\ ctx[t.ctx].after # {}) => t.ret = AttemptCount(runData, n)
    /\ \A id \in SettledNow : \A n \in DOMAIN runData : \A k \in 1..Len(runData[n]) :
           (Writers(n, k) \cap ctx[Task(id).ctx].after # {}) => Kept(n, k)

\* C5: a run of a node whose context is constructed after an earlier run of the
\* same node was discarded and recorded gets from addInputData the count of
\* attempts recorded at call time, an index greater than every index the earlier
\* run recorded, and its recordings leave the earlier run's entries as they are.
C5_RetryIndices == []C5_Indices /\ [][C5_Step]_vars

C5_Witness ==
    \E c2 \in Constructed : \E c1 \in ctx[c2].after :
        \E id2 \in RecordedBy(c2) : \E id1 \in RecordedBy(c1) :
            /\ Task(id1).type = "input"
            /\ Task(id2).type = "input"
            /\ Task(id2).ret = Task(id1).ret + 1
            /\ runData[id1[1]][Task(id1).idx + 1].by = id1[2]
            /\ runData[id2[1]][Task(id2).idx + 1].by = id2[2]

\* C6: for one node name no add call (addInputData or addOutputData) uses an
\* attempt index lower than the index an earlier call used.
C6_AllCallsMonotone ==
    \A n \in Nodes : \A i, j \in 1..Len(tasks[n]) :
        i < j => tasks[n][i].idx <= tasks[n][j].idx

\* C6 (amended): for one node name the attempt index addInputData computes is
\* never lower than the index an earlier addInputData computed; addOutputData
\* uses the index its caller passes.
C6_InputIndicesMonotone ==
    \A n \in Nodes : \A i, j \in 1..Len(tasks[n]) :
        (i < j /\ tasks[n][i].type = "input" /\ tasks[n][j].type = "input") =>
            tasks[n][i].idx <= tasks[n][j].idx

C6_Witness ==
    \E n \in Nodes :
        /\ Len(tasks[n]) = 3
        /\ tasks[n][1].type = "input" /\ tasks[n][1].idx = 0
        /\ tasks[n][2].type = "input" /\ tasks[n][2].idx = 1
        /\ tasks[n][3].type = "output" /\ tasks[n][3].idx = 0

\* C7: a recording that fails is reported by a warning and never reaches node
\* logic; addInputData has returned the index it computed and addOutputData has
\* returned, whether the recording is still in flight, recorded or failed.
C7_FireAndForget ==
    /\ raised = {}
    /\ \A id \in TaskIds :
           /\ Task(id).type = "input" => Task(id).ret = Task(id).idx
           /\ Task(id).state = "failed" => id \in warnings
           /\ id \in warnings => Task(id).state = "failed"

C7_Witness ==
    \E id1, id2, id3 \in TaskIds :
        /\ Task(id1).type = "input" /\ Task(id1).state = "failed" /\ id1 \in warnings
        /\ Task(id2).type = "output" /\ Task(id2).state = "failed" /\ id2 \in warnings
        /\ Task(id3).state = "pending" /\ Task(id3).ret = Task(id1).ret

C8_Keyed ==
    \A id \in TaskIds : ctx[Task(id).ctx].node = id[1]

C8_Step ==
    /\ \A n \in Nodes : \A t \in Started(n) :
           /\ ctx[t.ctx].node = n
           /\ t.type = "input" => t.idx = AttemptCount(runData, n)
           /\ runData' = runData
    /\ \A b \in Nodes :
           (AttemptsOf(runData', b) # AttemptsOf(runData, b)) =>
               \E id \in SettledNow : id[1] = b /\ ctx[Task(id).ctx].node = b

\* C8: an add call made through the context of node A is recorded under A's
\* name only; the attempts of every other node stay as they are, and the index
\* A obtains is the count of A's own attempts.
C8_Isolation == []C8_Keyed /\ [][C8_Step]_vars

C8_Witness ==
    /\ DOMAIN runData = Nodes
    /\ Len(runData["A"]) = 1 /\ Len(runData["B"]) = 1
    /\ \E id \in TaskIds : Task(id).state = "pending" /\ Task(id).idx = 1

\* C13: two addInputData calls made through two contexts of the same node on one
\* run record, whose recordings both succeed, never return the same attempt
\* index, so neither entry replaces the other.
C13_DistinctIndices ==
    \A n \in Nodes : \A i, j \in DOMAIN tasks[n] :
        (/\ i < j
         /\ tasks[n][i].type = "input" /\ tasks[n][j].type = "input"
         /\ tasks[n][i].ctx # tasks[n][j].ctx
         /\ ctx[tasks[n][i].ctx].node = n /\ ctx[tasks[n][j].ctx].node = n
         /\ tasks[n][i].state = "recorded" /\ tasks[n][j].state = "recorded")
        => tasks[n][i].ret # tasks[n][j].ret

----------------------------------------------------------------------------
(* Properties of the wait state and of cancellation *)

C9_State ==
    waitReturns # <<>> =>
        /\ waitTill = WaitUntil(waitReturns[Len(waitReturns)].time)
        /\ \A i \in 1..Len(waitReturns) : waitReturns[i].ok
        /\ statusLog = IF hasStatusSetter
                       THEN [i \in 1..Len(waitReturns) |-> "waiting"]
                       ELSE <<>>

C9_Step ==
    Len(waitReturns') > Len(waitReturns) =>
        /\ waitTill' = WaitUntil(waitReturns'[Len(waitReturns')].time)
        /\ runData' = runData

\* C9: putExecutionToWait(t) sets the record's wait timestamp to exactly t and
\* leaves the run data of every node as it is; a status setter that was
\* supplied is called with 'waiting', and without one the call still completes.
C9_WaitFrame == []C9_State /\ [][C9_Step]_vars

C9_Witness ==
    /\ Len(waitReturns) = 2
    /\ waitReturns[1].time = 1
    /\ waitTill = WaitUntil(2)
    /\ AttemptCount(runData, "A") = 2
    /\ \E id \in TaskIds : Task(id).state = "pending"
    /\ ~hasStatusSetter
    /\ statusLog = <<>>

\* C10: each onExecutionCancellation registration runs its handler at most
\* once, only once the signal is aborted and with its listener already removed
\* from the signal, so a later abort event does not run it again; without a
\* signal no handler runs and registering raises nothing;
\* getExecutionCancelSignal returns the signal given at construction.
C10_OneShot ==
    /\ \A r \in DOMAIN regs :
           /\ regs[r].ok
           /\ regs[r].runs <= 1
           /\ regs[r].runs = 1 =>
                  /\ abortSignal # 0
                  /\ signals[abortSignal].aborted
                  /\ regs[r].abortedAtRun
                  /\ ~regs[r].attachedAtRun
                  /\ r \notin Range(signals[abortSignal].listeners)
           /\ abortSignal = 0 => regs[r].runs = 0
    /\ lastGot # -1 => lastGot = abortSignal

C10_Witness ==
    /\ abortSignal # 0
    /\ events[abortSignal] = 2
    /\ Len(regs) = 2
    /\ regs[1].runs = 1
    /\ regs[2].runs = 1
    /\ lastGot = abortSignal

----------------------------------------------------------------------------
(* Properties of executeWorkflow *)

SubCallBase(c) ==
    /\ c.invocations = 1
    /\ c.pc = "invoked" => c.dups = 0
    /\ c.pc = "returned" =>
           /\ c.dups = 1
           /\ c.value = duplicateBinaryData(ParentWorkflowId, ParentExecutionId, c.nested)
           /\ c.value \subseteq store
           /\ \A r \in c.value :
                  r.workflowId = ParentWorkflowId /\ r.executionId = ParentExecutionId
    /\ c.nestedError # "" => c.pc = "failed" /\ c.dups = 0

\* C11: executeWorkflow calls the Sub-Workflow Invoker once; what it returns is
\* the nested output duplicated under the parent's workflow id and execution
\* id, duplicated after the nested execution finished and before the return;
\* a nested failure causes no duplication and reaches the calling node as a
\* SubWorkflowExecutionError wrapping the nested failure.
C11_WrappedFailure ==
    \A k \in DOMAIN subCalls :
        /\ SubCallBase(subCalls[k])
        /\ subCalls[k].nestedError # "" =>
               subCalls[k].error =
                   [type |-> "SubWorkflowExecutionError", cause |-> subCalls[k].nestedError]

\* what does hold of executeWorkflow: one invocation, the duplicate under the
\* parent's ids returned, nothing duplicated after a nested failure, and the
\* nested failure handed to the calling node as the invoker raised it
ExecuteWorkflowHolds ==
    \A k \in DOMAIN subCalls :
        /\ SubCallBase(subCalls[k])
        /\ subCalls[k].nestedError # "" =>
               subCalls[k].error = [type |-> subCalls[k].nestedError, cause |-> ""]

----------------------------------------------------------------------------
(* Properties of the UI and telemetry sinks *)

\* C12: a failure of the UI sender (sendMessageToUI, logNodeOutput) or of the
\* AI-event logger (logAiEvent) never reaches the node logic: the call returns
\* and the failure is logged as a warning; outside manual mode sendMessageToUI
\* and logNodeOutput never call the UI sender.
C12_SinkFailuresSwallowed ==
    \A k \in DOMAIN sinkCalls :
        /\ sinkCalls[k].outcome = "returned"
        /\ sinkCalls[k].failed => sinkCalls[k].warned
        /\ mode # "manual" => sinkCalls[k].sink # "ui"

\* what does hold: the claim for sendMessageToUI and logNodeOutput alone
UiSenderFailuresSwallowed ==
    \A k \in DOMAIN sinkCalls :
        sinkCalls[k].op # "logAiEvent" =>
            /\ sinkCalls[k].outcome = "returned"
            /\ sinkCalls[k].failed => sinkCalls[k].warned
            /\ mode # "manual" => sinkCalls[k].sink # "ui"

----------------------------------------------------------------------------
(* Properties of input addressing *)

CalledGetInputData == lastCall.op = "getInputData"

Connected == lastCall.inputName \in DOMAIN inputData

ValidSlot ==
    /\ Connected
    /\ lastCall.inputIndex >= 0
    /\ lastCall.inputIndex < Len(inputData[lastCall.inputName])
    /\ ~inputData[lastCall.inputName][lastCall.inputIndex + 1].isNull

UnsetSlot ==
    /\ Connected
    /\ lastCall.inputIndex >= 0
    /\ lastCall.inputIndex < Len(inputData[lastCall.inputName])
    /\ inputData[lastCall.inputName][lastCall.inputIndex + 1].isNull

\* C1: getInputData on a connected channel and a valid slot returns exactly the
\* batch stored at that slot; on a channel that is no key of the
\* TaskDataConnections it returns the empty sequence and raises no error,
\* whatever the inputIndex.
C1_InputDataReturned ==
    CalledGetInputData =>
        /\ ValidSlot =>
               lastCall.outcome =
                   Returned("items", inputData[lastCall.inputName][lastCall.inputIndex + 1].items)
        /\ ~Connected => lastCall.outcome = Returned("items", <<>>)

C1_Witness ==
    /\ CalledGetInputData
    /\ ValidSlot
    /\ lastCall.inputIndex = 1
    /\ lastCall.outcome = Returned("items", <<"item">>)
    /\ \E n \in Channels : n \notin DOMAIN inputData

\* C2: on a connected channel every inputIndex >= the number of batches
\* (the batch count itself included) fails with the addressing error carrying
\* the inputIndex and the channel name, and returns no value.
C2_IndexOutOfRange ==
    (CalledGetInputData /\ Connected
        /\ lastCall.inputIndex >= Len(inputData[lastCall.inputName])) =>
        lastCall.outcome =
            Thrown(MsgIndexOutOfRange, lastCall.inputIndex, lastCall.inputName)

\* C3: on a connected channel an in-range slot that is null fails with
\* 'Value of input was not set', which is neither the index-out-of-range error
\* nor a returned value; a null slot is never returned.
C3_UnsetInputValue ==
    CalledGetInputData =>
        /\ UnsetSlot =>
               /\ lastCall.outcome =
                      Thrown(MsgUnsetInputValue, lastCall.inputIndex, lastCall.inputName)
               /\ lastCall.outcome.message # MsgIndexOutOfRange
               /\ lastCall.outcome.kind # "return"
        /\ lastCall.outcome.tag # "null"

C3_Witness ==
    /\ CalledGetInputData
    /\ UnsetSlot
    /\ lastCall.inputIndex = 1
    /\ lastCall.outcome.kind = "throw"

----------------------------------------------------------------------------
(* Properties of source addressing *)

CalledGetInputSourceData == lastCall.op = "getInputSourceData"

SourcePopulated ==
    /\ ~executeData.isNull
    /\ lastCall.inputName \in DOMAIN executeData.map

\* C4: getInputSourceData returns the provenance entry recorded for the channel
\* and slot, and whenever provenance was never populated (source absent, or no
\* entry for the channel) it fails with 'Source data is missing' and in no
\* other way.
C4_SourceDataMissing ==
    CalledGetInputSourceData =>
        /\ ~SourcePopulated => lastCall.outcome = Thrown(MsgSourceDataMissing, -1, "")
        /\ (SourcePopulated
               /\ lastCall.inputIndex < Len(executeData.map[lastCall.inputName])) =>
               lastCall.outcome.value =
                   <<executeData.map[lastCall.inputName][lastCall.inputIndex + 1]>>

====
